---- MODULE Spec2Model ----
(***************************************************************************)
(* Model of sparsedb: SparseDB (the catalog), SparseColumn (one column's   *)
(* value array and presence map), MapFile (the persisted presence map) and *)
(* ReversePolish (the postfix evaluator behind SparseDB.find).             *)
(*                                                                         *)
(* The persisted state is the meta.toml document and, per column, the      *)
(* HDF5 file (datasets 'shape' and 'data') and the map file.  The          *)
(* in-memory state is one SparseDB object: _meta, _colidx and _cols, each  *)
(* SparseColumn holding its own in-memory shape.                           *)
(***************************************************************************)
EXTENDS Integers, Sequences, FiniteSets, TLC

\* ------------------------------------------------------------------ bounds
\* Largest index a caller puts into a map file directly.
MaxMapItem == 3
\* Largest block index a caller passes.
MaxBI == 1
\* Largest number of blocks handed to put_data_blocks over a whole run.
MaxBlocks == 2
\* Longest statement, in tokens, handed to find / execute.
MaxTokens == 3
\* Longest item-index list handed to get_data.
MaxItems == 2

\* ------------------------------------------------------------------ inputs
\* Column names callers use.
Names == {"x", "y"}
\* Column lists handed to create: a two-column catalog and a list with a
\* repeated name.
CreateInputs == {<<"x", "y">>, <<"x", "x">>}
\* The blocksize argument of put_data_blocks.
BlockSizes == {2}
\* Block indices.
BlockIndices == 0..MaxBI

\* ----------------------------------------------------------------- helpers
Range(s) == {s[i] : i \in DOMAIN s}

Max(a, b) == IF a >= b THEN a ELSE b

SetMax(S) == CHOOSE m \in S : \A n \in S : n <= m

IsInjective(s) == \A i, j \in DOMAIN s : s[i] = s[j] => i = j

RECURSIVE SortedSeq(_)
\* The elements of a finite set of integers in ascending order.
SortedSeq(S) ==
    IF S = {} THEN <<>>
    ELSE LET m == CHOOSE a \in S : \A b \in S : a <= b
         IN  <<m>> \o SortedSeq(S \ {m})

\* All sequences over S of length 0..n.
SeqsUpTo(S, n) == UNION {[1..k -> S] : k \in 0..n}

\* ------------------------------------------------------------- values
\* The value array has dtype 'f': a stored value is the nearest float32.
\* For a non-negative integer below 2^24 that is the integer itself; from
\* 2^24 to 2^25 it is rounded to a multiple of 2, ties to even mantissa.
Float32(v) ==
    IF v < 16777216 THEN v
    ELSE IF v % 2 = 0 THEN v
    ELSE IF ((v - 1) \div 2) % 2 = 0 THEN v - 1 ELSE v + 1

\* The value a caller stores for item g of the k-th block column: every cell
\* of the test data carries a value of its own.
CellValue(k, g) == 10 * k + g + 1

\* ------------------------------------------------------------- MapFile
\* roaring.BitMap.serialize: a self-describing blob, here the cardinality
\* followed by the members in ascending order.
Serialize(map) == <<Cardinality(map)>> \o SortedSeq(map)

\* roaring.BitMap.deserialize: reads the header and that many members, and
\* ignores whatever follows them in the buffer.
Deserialize(buff) == {buff[i] : i \in 2..(buff[1] + 1)}

\* A file that does not exist; open counts the handles open on a file.
NoMapFile == [exists |-> FALSE, buf |-> <<>>, open |-> 0]

\* MapFile.__init__: the handle (mode, map, err) and the file as the
\* constructor leaves it, open through self._fp where it did not raise.  An invalid mode raises ValueError; mode 'rw'
\* creates a missing file holding an empty map; open() of a missing file in
\* mode 'r' raises.
MapFileOpen(file, mode) ==
    IF mode \notin {"r", "rw"}
    THEN [err |-> "ValueError", mode |-> mode, map |-> {}, file |-> file]
    ELSE IF ~file.exists /\ mode = "rw"
    THEN [err |-> "", mode |-> mode, map |-> {},
          file |-> [exists |-> TRUE, buf |-> Serialize({}),
                    open |-> file.open + 1]]
    ELSE IF ~file.exists
    THEN [err |-> "FileNotFoundError", mode |-> mode, map |-> {},
          file |-> file]
    ELSE [err |-> "", mode |-> mode, map |-> Deserialize(file.buf),
          file |-> [file EXCEPT !.open = @ + 1]]

\* The file after buff is written at offset 0: it is not truncated, so what
\* lay beyond the new blob stays.
WriteAtStart(buff, file) ==
    [file EXCEPT !.exists = TRUE,
                 !.buf = buff \o SubSeq(file.buf, Len(buff) + 1,
                                        Len(file.buf))]

\* MapFile.dump
MapFileDump(map, file) == WriteAtStart(Serialize(map), file)

\* Mutation of close: the map is dumped whatever the mode.
MutMapFileCloseDumps(mode, map, file) ==
    [MapFileDump(map, file) EXCEPT !.open = @ - 1]

\* MapFile.close (and __exit__): the file after the handle with this mode
\* and map is closed.
MapFileClose(mode, map, file) ==
    [(IF mode = "rw" THEN MapFileDump(map, file) ELSE file)
        EXCEPT !.open = @ - 1]

\* -------------------------------------------------------- SparseColumn
NoH5File == [exists |-> FALSE, shape |-> <<0, 0>>, data |-> <<>>, open |-> 0]

\* h5py.File(path, mode) on an existing file, entering the with-block.
H5Open(h5file) == [h5file EXCEPT !.open = @ + 1]

\* Leaving the with-block of an h5py.File.
H5Close(h5file) == [h5file EXCEPT !.open = @ - 1]

\* with MapFile(path, 'rw') as bmf: pass
TouchMapFile(bmf) == MapFileClose(bmf.mode, bmf.map, bmf.file)

\* Mutation of _set_paths: the two files are created whether or not they
\* exist.
MutColumnInitTruncates(name, h5file, mapfile) ==
    [col  |-> [name |-> name, shape |-> <<1, 0>>],
     h5   |-> [exists |-> TRUE, shape |-> <<1, 0>>, data |-> <<>>,
               open |-> 0],
     mapf |-> TouchMapFile(MapFileOpen(NoMapFile, "rw"))]

\* SparseColumn.__init__ / _set_paths: the object starts with shape (1,0);
\* each of the two files is created only when it is missing.
ColumnInit(name, h5file, mapfile) ==
    [col  |-> [name |-> name, shape |-> <<1, 0>>],
     h5   |-> IF ~h5file.exists
              THEN [exists |-> TRUE, shape |-> <<1, 0>>, data |-> <<>>,
                    open |-> h5file.open]
              ELSE h5file,
     mapf |-> IF ~mapfile.exists
              THEN TouchMapFile(MapFileOpen(mapfile, "rw"))
              ELSE mapfile]

\* with MapFile(path, 'r') as bmf: return bmf.map
ReturnMap(bmf) ==
    [err |-> bmf.err, map |-> bmf.map,
     file |-> MapFileClose(bmf.mode, bmf.map, bmf.file)]

\* SparseColumn.get_map: the map read from the file, and the file after it.
GetMap(mapfile) == ReturnMap(MapFileOpen(mapfile, "r"))

\* data0.resize((l0+l,)); data0[l0:] = data, in a dataset of dtype 'f'.
ExtendData(data0, data) == data0 \o [i \in DOMAIN data |-> Float32(data[i])]

\* Mutation of _append_data: the values are appended but the indices are not
\* added to the map.
MutAppendDataKeepMap(st, data, indices, shape) ==
    [st EXCEPT !.h5.data = ExtendData(@, data),
               !.col.shape = <<1, Max(shape[2], st.col.shape[2])>>,
               !.h5.shape = <<1, Max(shape[2], st.col.shape[2])>>]

\* Mutation of _append_data: the map is assigned the new indices instead of
\* being updated with them.
MutAppendDataReplaceMap(st, data, indices, shape) ==
    [st EXCEPT !.h5.data = ExtendData(@, data),
               !.col.shape = <<1, Max(shape[2], st.col.shape[2])>>,
               !.h5.shape = <<1, Max(shape[2], st.col.shape[2])>>,
               !.map = Range(indices)]

\* SparseColumn._append_data on the open files: st holds the SparseColumn
\* object (col), the open HDF5 file (h5) and the map of the open MapFile.
AppendData(st, data, indices, shape) ==
    [st EXCEPT !.h5.data = ExtendData(@, data),
               !.col.shape = <<1, Max(shape[2], st.col.shape[2])>>,
               !.h5.shape = <<1, Max(shape[2], st.col.shape[2])>>,
               !.map = @ \cup Range(indices)]

\* Mutation of the index computation: the block offset is left out.
MutGlobalIndicesLocal(indices, bi, blocksize) == indices

\* b.indices + bi*blocksize
GlobalIndices(indices, bi, blocksize) ==
    [i \in DOMAIN indices |-> indices[i] + bi * blocksize]

RECURSIVE PutLoop(_, _, _, _)
\* The loop of SparseColumn.put_data_blocks over csr_blocks, a sequence of
\* <<bi, b>> with b = [shape, indices, data]; st.err is set where it raises
\* and st.done counts the blocks appended.
PutLoop(st, blocksize, csr_blocks, maxbi) ==
    IF csr_blocks = <<>> THEN st
    ELSE IF Head(csr_blocks)[2].shape[1] # 1
            \/ Head(csr_blocks)[2].shape[2] # blocksize
    THEN [st EXCEPT !.err = "invalid block shape"]
    ELSE PutLoop(
            [AppendData(st, Head(csr_blocks)[2].data,
                        GlobalIndices(Head(csr_blocks)[2].indices,
                                      Head(csr_blocks)[1], blocksize),
                        <<1, (Max(maxbi, Head(csr_blocks)[1]) + 1) * blocksize>>)
                EXCEPT !.done = @ + 1],
            blocksize, Tail(csr_blocks), Max(maxbi, Head(csr_blocks)[1]))

\* Mutation of the exit: the map is dumped only when the loop did not raise.
MutPutExitNoFlush(bmf, st) ==
    [col  |-> st.col,
     h5   |-> H5Close(st.h5),
     mapf |-> IF st.err # "" THEN bmf.file
              ELSE MapFileClose(bmf.mode, st.map, bmf.file),
     err  |-> st.err,
     done |-> st.done]

\* Mutation of the exit: the files are closed after the loop without a
\* with-block, so that nothing is closed or dumped when the loop raises.
MutPutExitLeaks(bmf, st) ==
    [col  |-> st.col,
     h5   |-> IF st.err # "" THEN st.h5 ELSE H5Close(st.h5),
     mapf |-> IF st.err # "" THEN bmf.file
              ELSE MapFileClose(bmf.mode, st.map, bmf.file),
     err  |-> st.err,
     done |-> st.done]

\* Leaving the with-block of put_data_blocks: both files are closed, the map
\* being dumped by MapFile.close, whether the loop raised or not.
PutExit(bmf, st) ==
    [col  |-> st.col,
     h5   |-> H5Close(st.h5),
     mapf |-> MapFileClose(bmf.mode, st.map, bmf.file),
     err  |-> st.err,
     done |-> st.done]

\* The with-block of put_data_blocks on the opened MapFile bmf.
PutWith(bmf, col, h5file, blocksize, csr_blocks) ==
    PutExit(bmf, PutLoop([col |-> col, h5 |-> h5file, map |-> bmf.map,
                          err |-> "", done |-> 0],
                         blocksize, csr_blocks, 0))

\* SparseColumn.put_data_blocks: both files are opened for the whole call.
ColumnPutDataBlocks(col, h5file, mapfile, blocksize, csr_blocks) ==
    PutWith(MapFileOpen(mapfile, "rw"), col, H5Open(h5file), blocksize,
            csr_blocks)

\* csr_matrix((data, indices, indptr), shape) with indptr = (0, len(data)):
\* the constructor checks that indices and data have the same length; it
\* checks neither the order of the indices nor that they lie below shape[1].
CsrMatrix(data, m, shape, h5f) ==
    [err     |-> IF m.err # "" THEN m.err
                 ELSE IF Cardinality(m.map) # Len(data) THEN "ValueError"
                 ELSE "",
     shape   |-> shape,
     indices |-> SortedSeq(m.map),
     data    |-> data,
     file    |-> m.file,
     h5      |-> h5f]

\* The with-block of get_data on the open data file h5f: the matrix, and
\* the two files after the block is left, which closes the data file
\* whether the constructor raised or not.
GetDataWith(h5f, mapfile) ==
    CsrMatrix(h5f.data, GetMap(mapfile), h5f.shape, H5Close(h5f))

\* SparseColumn.get_data
ColumnGetData(h5file, mapfile) == GetDataWith(H5Open(h5file), mapfile)

\* ------------------------------------------------------------- state
VARIABLES
    meta,        \* meta.toml: [exists, cols, shape]
    h5,          \* per column name, the HDF5 file: [exists, shape, data]
    mapf,        \* per column name, the map file: [exists, buf]
    self_meta,   \* SparseDB._meta: [set, cols, shape]
    self_colidx, \* SparseDB._colidx: [set, idx]
    self_cols,   \* SparseDB._cols: [set, list], list of [name, shape]
    ret,         \* what the last call returned or raised
    nblocks,     \* blocks handed to put_data_blocks so far
    g_sizes,     \* history: (bi+1)*blocksize of every block appended
    g_log,       \* history: <<column, item, value>> of every cell appended
    g_dup,       \* history: some (column, item) was appended twice
    g_contract,  \* history: every call kept the per-call contract
    g_before     \* history: the catalog as it was before the last attach

vars == <<meta, h5, mapf, self_meta, self_colidx, self_cols, ret, nblocks,
          g_sizes, g_log, g_dup, g_contract, g_before>>

\* What a call returned (val) or raised (err); arg is its argument.
Ret(op, arg, err, val) == [op |-> op, arg |-> arg, err |-> err, val |-> val]

NoMeta == [exists |-> FALSE, cols |-> <<>>, shape |-> <<0, 0>>]

Unset == [set |-> FALSE, cols |-> <<>>, shape |-> <<0, 0>>]

\* Nothing is remembered of the catalog before an attach.
Unobserved == [set |-> FALSE]

\* The state after SparseDB(path, name) on an empty directory.
Init ==
    /\ meta = NoMeta
    /\ h5 = [c \in Names |-> NoH5File]
    /\ mapf = [c \in Names |-> NoMapFile]
    /\ self_meta = Unset
    /\ self_colidx = [set |-> FALSE, idx |-> <<>>]
    /\ self_cols = [set |-> FALSE, list |-> <<>>]
    /\ ret = Ret("init", <<>>, "", <<>>)
    /\ nblocks = 0
    /\ g_sizes = {}
    /\ g_log = {}
    /\ g_dup = FALSE
    /\ g_contract = TRUE
    /\ g_before = Unobserved

\* ------------------------------------------------------------ SparseDB
\* SparseDB.exists
Exists == meta.exists

\* Mutation of _read_meta: the consistency test is left out.
MutReadMetaNoCheck(doc) ==
    [m   |-> [set |-> TRUE, cols |-> doc.cols, shape |-> doc.shape],
     err |-> ""]

\* SparseDB._read_meta on the document doc: _meta is assigned before the
\* consistency check.
ReadMeta(doc) ==
    [m   |-> [set |-> TRUE, cols |-> doc.cols, shape |-> doc.shape],
     err |-> IF Len(doc.cols) # doc.shape[2]
             THEN "inconsistent meta data" ELSE ""]

\* SparseDB._write_meta: the document written for an in-memory _meta.
WriteMeta(m) == [exists |-> TRUE, cols |-> m.cols, shape |-> m.shape]

\* {c:i for i,c in enumerate(cols)}: a repeated name keeps its last index
\* (indices are 1-based here).
ColIdx(cols) ==
    [c \in Range(cols) |->
        CHOOSE i \in DOMAIN cols :
            cols[i] = c /\ \A j \in DOMAIN cols : cols[j] = c => j <= i]

\* One SparseColumn(path, c) added to the list, with the files it leaves.
AddColumn(st, c, r) ==
    [list |-> Append(st.list, r.col),
     h5   |-> [st.h5 EXCEPT ![c] = r.h5],
     mapf |-> [st.mapf EXCEPT ![c] = r.mapf]]

RECURSIVE InitColumns(_, _)
\* [SparseColumn(path, c) for c in cols], applied to the files in st.
InitColumns(st, cols) ==
    IF cols = <<>> THEN st
    ELSE InitColumns(
            AddColumn(st, Head(cols),
                      ColumnInit(Head(cols), st.h5[Head(cols)],
                                 st.mapf[Head(cols)])),
            Tail(cols))

\* The last two lines of SparseDB.attach: _colidx and _cols are built.
BuildColumns(cols, st, op, arg) ==
    /\ self_colidx' = [set |-> TRUE, idx |-> ColIdx(cols)]
    /\ self_cols' = [set |-> TRUE, list |-> st.list]
    /\ h5' = st.h5
    /\ mapf' = st.mapf
    /\ ret' = Ret(op, arg, "", <<>>)

\* SparseDB.attach after _read_meta returned r, called as op(arg).
AfterReadMeta(r, op, arg) ==
    /\ self_meta' = r.m
    /\ IF r.err # ""
       THEN /\ ret' = Ret(op, arg, r.err, <<>>)
            /\ UNCHANGED <<h5, mapf, self_colidx, self_cols>>
       ELSE BuildColumns(r.m.cols,
                         InitColumns([list |-> <<>>, h5 |-> h5,
                                      mapf |-> mapf], r.m.cols),
                         op, arg)

\* SparseDB.attach on the persisted document doc, called as op(arg).
AttachEffect(doc, op, arg) ==
    IF ~doc.exists
    THEN /\ ret' = Ret(op, arg, "database does not exist", <<>>)
         /\ UNCHANGED <<h5, mapf, self_meta, self_colidx, self_cols>>
    ELSE AfterReadMeta(ReadMeta(doc), op, arg)

\* The document create writes for cols.
NewMeta(cols) ==
    WriteMeta([set |-> TRUE, cols |-> cols, shape |-> <<0, Len(cols)>>])

\* Mutation of create: the metadata is written before the names are tested
\* for repetitions.
MutCreateWritesFirst(cols) ==
    /\ IF Exists
       THEN /\ ret' = Ret("create", cols, "database already exists", <<>>)
            /\ UNCHANGED <<meta, h5, mapf, self_meta, self_colidx, self_cols>>
       ELSE IF Len(cols) # Cardinality(Range(cols))
       THEN /\ meta' = NewMeta(cols)
            /\ ret' = Ret("create", cols, "repeated column names", <<>>)
            /\ UNCHANGED <<h5, mapf, self_meta, self_colidx, self_cols>>
       ELSE /\ meta' = NewMeta(cols)
            /\ AttachEffect(NewMeta(cols), "create", cols)
    /\ UNCHANGED <<nblocks, g_sizes, g_log, g_dup, g_contract>>
    /\ g_before' = Unobserved

\* SparseDB.create
Create(cols) ==
    /\ IF Exists
       THEN /\ ret' = Ret("create", cols, "database already exists", <<>>)
            /\ UNCHANGED <<meta, h5, mapf, self_meta, self_colidx, self_cols>>
       ELSE IF Len(cols) # Cardinality(Range(cols))
       THEN /\ ret' = Ret("create", cols, "repeated column names", <<>>)
            /\ UNCHANGED <<meta, h5, mapf, self_meta, self_colidx, self_cols>>
       ELSE /\ meta' = NewMeta(cols)
            /\ AttachEffect(NewMeta(cols), "create", cols)
    /\ UNCHANGED <<nblocks, g_sizes, g_log, g_dup, g_contract>>
    /\ g_before' = Unobserved

\* The rows of blk.tocsc().T: one 1 x shape[0] slice per column of the block.
\* A block is given in CSC form: [shape |-> <<rows, ncols>>, cols |-> the
\* <<indices, data>> arrays of each column].
ColumnSlices(blk) ==
    [k \in DOMAIN blk.cols |->
        [shape   |-> <<1, blk.shape[1]>>,
         indices |-> blk.cols[k].indices,
         data    |-> blk.cols[k].data]]

\* What self._cols[i].put_data_blocks returned, r, taken into st.
Routed(st, i, r) ==
    [st EXCEPT !.list[i] = r.col,
               !.h5[r.col.name] = r.h5,
               !.mapf[r.col.name] = r.mapf,
               !.err = r.err]

RECURSIVE RouteColumns(_, _, _, _, _)
\* for i,c in enumerate(blkc.T): self._cols[i].put_data_blocks(blocksize,
\* [(bi,c)]), from slice number i on.  st holds _cols (set, list), the files
\* and err.
RouteColumns(st, blocksize, bi, slices, i) ==
    IF i > Len(slices) \/ st.err # "" THEN st
    ELSE IF ~st.set THEN [st EXCEPT !.err = "AttributeError"]
    ELSE IF i > Len(st.list) THEN [st EXCEPT !.err = "IndexError"]
    ELSE RouteColumns(
            Routed(st, i,
                   ColumnPutDataBlocks(st.list[i], st.h5[st.list[i].name],
                                       st.mapf[st.list[i].name], blocksize,
                                       << <<bi, slices[i]>> >>)),
            blocksize, bi, slices, i + 1)

\* Mutation of the row count: it is never lowered.
MutNewRowCountKeepsMax(old, maxbi, blocksize) ==
    Max(old, (maxbi + 1) * blocksize)

\* self._meta['shape'][0] = (maxbi+1)*blocksize
NewRowCount(old, maxbi, blocksize) == (maxbi + 1) * blocksize

\* Mutation of the shape update: the row count is stored in the column
\* count's place.
MutUpdateShapeAxis(st, rc) ==
    IF st.err # "" THEN st
    ELSE IF ~st.smeta.set THEN [st EXCEPT !.err = "AttributeError"]
    ELSE [st EXCEPT !.smeta.shape[2] = rc,
                    !.meta = WriteMeta([st.smeta EXCEPT !.shape[2] = rc]),
                    !.writes = Append(@, rc),
                    !.done = @ + 1]

\* The two statements after the column loop: _meta gets the new row count
\* and is written.  st.writes lists the row counts written during the call.
UpdateShape(st, rc) ==
    IF st.err # "" THEN st
    ELSE IF ~st.smeta.set THEN [st EXCEPT !.err = "AttributeError"]
    ELSE [st EXCEPT !.smeta.shape[1] = rc,
                    !.meta = WriteMeta([st.smeta EXCEPT !.shape[1] = rc]),
                    !.writes = Append(@, rc),
                    !.done = @ + 1]

RECURSIVE PutBlocksLoop(_, _, _, _)
\* The loop of SparseDB.put_data_blocks over csr_blocks, a sequence of
\* <<bi, blk>>.
PutBlocksLoop(st, blocksize, csr_blocks, maxbi) ==
    IF csr_blocks = <<>> \/ st.err # "" THEN st
    ELSE PutBlocksLoop(
            UpdateShape(
                RouteColumns(st, blocksize, Head(csr_blocks)[1],
                             ColumnSlices(Head(csr_blocks)[2]), 1),
                NewRowCount(st.smeta.shape[1],
                            Max(maxbi, Head(csr_blocks)[1]), blocksize)),
            blocksize, Tail(csr_blocks), Max(maxbi, Head(csr_blocks)[1]))

\* SparseDB.put_data_blocks, the whole call.
PutDataBlocksResult(blocksize, csr_blocks) ==
    PutBlocksLoop([set |-> self_cols.set, list |-> self_cols.list,
                   h5 |-> h5, mapf |-> mapf, smeta |-> self_meta,
                   meta |-> meta, err |-> "", done |-> 0, writes |-> <<>>],
                  blocksize, csr_blocks, 0)

\* --------------------------------------------------- history of appends
\* The cells of block <<bi, blk>> routed to the catalog columns named names.
BlockCells(names, blocksize, b) ==
    {<<names[k], b[2].cols[k].indices[j] + b[1] * blocksize,
       b[2].cols[k].data[j]>> :
        <<k, j>> \in {p \in (DOMAIN names) \X (0..blocksize) :
                        /\ p[1] \in DOMAIN b[2].cols
                        /\ p[2] \in DOMAIN b[2].cols[p[1]].indices}}

RECURSIVE CellCount(_, _)
\* How many cells of block b go to the first n catalog columns.
CellCount(n, b) ==
    IF n = 0 THEN 0
    ELSE (IF n \in DOMAIN b[2].cols THEN Len(b[2].cols[n].indices) ELSE 0)
         + CellCount(n - 1, b)

RECURSIVE CallCellCount(_, _, _)
\* How many cells of the first i blocks go to the first n catalog columns.
CallCellCount(n, csr_blocks, i) ==
    IF i = 0 THEN 0
    ELSE CellCount(n, csr_blocks[i]) + CallCellCount(n, csr_blocks, i - 1)

\* The (column, item) pairs of a set of cells.
Keys(L) == {<<e[1], e[2]>> : e \in L}

\* A block the call accepts: as wide as blocksize, no more columns than the
\* catalog.
BlockAccepted(ncat, blocksize, b) ==
    b[2].shape[1] = blocksize /\ Len(b[2].cols) <= ncat

\* The blocks of a call whose cells reach the columns: those before the
\* first block that is not accepted, and that block too when it fails only
\* after its columns were routed (too many columns).
RoutedBlocks(ncat, blocksize, csr_blocks) ==
    LET bad == {i \in DOMAIN csr_blocks :
                    ~BlockAccepted(ncat, blocksize, csr_blocks[i])}
        n   == IF bad = {} THEN Len(csr_blocks)
               ELSE (CHOOSE i \in bad : \A j \in bad : i <= j) - 1
    IN  [done |-> n,
         routed |-> IF n < Len(csr_blocks)
                        /\ csr_blocks[n + 1][2].shape[1] = blocksize
                    THEN n + 1 ELSE n]

IsAscending(s) == \A i, j \in DOMAIN s : i < j => s[i] < s[j]

\* The per-call contract: every block is blocksize wide with one column per
\* catalog column, local indices ascend within each column, and the block
\* index never decreases within the call.
CallContract(ncat, blocksize, csr_blocks) ==
    /\ \A i \in DOMAIN csr_blocks :
          /\ csr_blocks[i][2].shape = <<blocksize, ncat>>
          /\ \A k \in DOMAIN csr_blocks[i][2].cols :
                IsAscending(csr_blocks[i][2].cols[k].indices)
    /\ \A i, j \in DOMAIN csr_blocks :
          i < j => csr_blocks[i][1] <= csr_blocks[j][1]

\* ------------------------------------------------------- block inputs
\* The local indices of one column of a block, in ascending order.
SliceIndices(blocksize) ==
    {s \in SeqsUpTo(0..(blocksize - 1), blocksize) : IsAscending(s)}

\* A block in CSC form whose k-th column holds the local indices f[k]; the
\* value at item g of column k is CellValue(k, g).
Block(rows, f, blocksize, bi) ==
    [shape |-> <<rows, Len(f)>>,
     cols  |-> [k \in DOMAIN f |->
                  [indices |-> f[k],
                   data    |-> [j \in DOMAIN f[k] |->
                                  CellValue(k, f[k][j] + bi * blocksize)]]]]

\* The blocks a caller passes with block index bi: every choice of cells for
\* two columns, a block one row too long, and a block with a third column.
Blocks(blocksize, bi) ==
    {Block(blocksize, f, blocksize, bi) :
        f \in [1..2 -> SliceIndices(blocksize)]}
    \cup {Block(blocksize + 1, <<<<>>, <<>>>>, blocksize, bi),
          Block(blocksize, <<<<0>>, <<>>, <<>>>>, blocksize, bi)}

\* The blocks of a call of several blocks: each column is empty or full.
CoarseBlocks(blocksize, bi) ==
    {Block(blocksize, f, blocksize, bi) :
        f \in [1..2 -> {<<>>, [i \in 1..blocksize |-> i - 1]}]}
    \cup {Block(blocksize + 1, <<<<>>, <<>>>>, blocksize, bi)}

\* The csr_blocks arguments: no block, any one block, or two coarse blocks.
CallInputs(blocksize) ==
    {<<>>}
    \cup UNION {{<< <<bi, blk>> >> : blk \in Blocks(blocksize, bi)} :
                    bi \in BlockIndices}
    \cup UNION {{<< <<b[1], blk1>>, <<b[2], blk2>> >> :
                    blk1 \in CoarseBlocks(blocksize, b[1]),
                    blk2 \in CoarseBlocks(blocksize, b[2])} :
                    b \in BlockIndices \X BlockIndices}

\* The history after a call on an attached catalog whose routed cells are
\* cells, n of them.
Record(csr_blocks, blocksize, done, cells, n) ==
    /\ nblocks' = nblocks + Len(csr_blocks)
    /\ g_sizes' = g_sizes \cup
           {(csr_blocks[i][1] + 1) * blocksize : i \in 1..done}
    /\ g_log' = g_log \cup cells
    /\ g_dup' = (g_dup \/ Cardinality(Keys(g_log \cup cells))
                            # Cardinality(Keys(g_log)) + n)
    /\ g_contract' = (g_contract /\ CallContract(Len(self_cols.list),
                                                 blocksize, csr_blocks))

\* The history kept for a call: nothing when the catalog is not attached.
RecordCall(csr_blocks, blocksize, names, rb) ==
    IF ~self_cols.set
    THEN UNCHANGED <<nblocks, g_sizes, g_log, g_dup, g_contract>>
    ELSE Record(csr_blocks, blocksize, rb.done,
                UNION {BlockCells(names, blocksize, csr_blocks[i]) :
                           i \in 1..rb.routed},
                CallCellCount(Len(names), csr_blocks, rb.routed))

\* The arguments of a call in short: blocksize, and for each block its bi
\* and its shape.
CallShape(blocksize, csr_blocks) ==
    <<blocksize,
      [i \in DOMAIN csr_blocks |->
          <<csr_blocks[i][1], csr_blocks[i][2].shape[1],
            csr_blocks[i][2].shape[2]>>]>>

\* The state a call of put_data_blocks with arguments arg that ended as r
\* leaves.
PutDataBlocksEffect(arg, r) ==
    /\ meta' = r.meta
    /\ h5' = r.h5
    /\ mapf' = r.mapf
    /\ self_meta' = r.smeta
    /\ self_cols' = [self_cols EXCEPT !.list = r.list]
    /\ ret' = Ret("put_data_blocks", arg, r.err, r.writes)
    /\ UNCHANGED self_colidx

\* SparseDB.put_data_blocks(blocksize, csr_blocks)
PutDataBlocks(blocksize, csr_blocks) ==
    /\ nblocks + Len(csr_blocks) <= MaxBlocks
    /\ PutDataBlocksEffect(CallShape(blocksize, csr_blocks),
                           PutDataBlocksResult(blocksize, csr_blocks))
    /\ RecordCall(csr_blocks, blocksize,
                  [k \in DOMAIN self_cols.list |-> self_cols.list[k].name],
                  RoutedBlocks(Len(self_cols.list), blocksize, csr_blocks))
    /\ g_before' = Unobserved

\* -------------------------------------------------------- tokeniser
\* A string is a sequence of one-character strings.
OpChars == {"&", "|", "^", "-", "!"}

RECURSIVE SubOps(_)
\* self._fmtpat.sub(' \\1 ', statement): every operator character gets a
\* blank before and after it.
SubOps(str) ==
    IF str = <<>> THEN <<>>
    ELSE (IF Head(str) \in OpChars THEN <<" ", Head(str), " ">>
          ELSE <<Head(str)>>) \o SubOps(Tail(str))

RECURSIVE SplitOn(_, _, _)
\* The pieces of str between blanks, cur being the piece under way.  With
\* keep, empty pieces count (str.split(' ')); without, they are dropped
\* (str.split()).
SplitOn(str, cur, keep) ==
    IF str = <<>>
    THEN IF keep \/ cur # <<>> THEN <<cur>> ELSE <<>>
    ELSE IF Head(str) = " "
    THEN (IF keep \/ cur # <<>> THEN <<cur>> ELSE <<>>)
         \o SplitOn(Tail(str), <<>>, keep)
    ELSE SplitOn(Tail(str), Append(cur, Head(str)), keep)

RECURSIVE JoinBlank(_)
\* ' '.join(words)
JoinBlank(words) ==
    IF words = <<>> THEN <<>>
    ELSE IF Len(words) = 1 THEN Head(words)
    ELSE Head(words) \o <<" ">> \o JoinBlank(Tail(words))

\* SparseDB._format
Format(statement) == JoinBlank(SplitOn(SubOps(statement), <<>>, FALSE))

\* simple_tokeniser_ops['bool']: the arity of an operator, 0 for the rest.
Arity(v) ==
    IF v \in {<<"&">>, <<"|">>, <<"^">>, <<"-">>} THEN 2
    ELSE IF v = <<"!">> THEN 1
    ELSE 0

\* (v, v in set(ops), ops.get(v, 0))
Token(v) == [val |-> v, op |-> Arity(v) # 0, arity |-> Arity(v)]

\* simple_tokeniser('bool', expr)
SimpleTokeniser(expr) ==
    [i \in DOMAIN SplitOn(expr, <<>>, TRUE) |->
        Token(SplitOn(expr, <<>>, TRUE)[i])]

\* The tokeniser SparseDB hands to ReversePolish.
Tokeniser(statement) == SimpleTokeniser(Format(statement))

\* ----------------------------------------------------- ReversePolish
\* A stack element is a string (an operand not yet resolved) or a bitmap.
Str(v) == [k |-> "str", v |-> v]

Bitmap(S) == [k |-> "map", v |-> S]

\* Mutation of flip: the members outside [start, end) are dropped.
MutFlipComplement(S, start, end) == (start..(end - 1)) \ S

\* BitMap.flip(start, end): the members of [start, end) are negated, the
\* members outside the range are kept.
Flip(S, start, end) ==
    (S \ (start..(end - 1))) \cup ((start..(end - 1)) \ S)

\* Machine state m after column name's get_map returned r.
Resolved(m, name, r) ==
    [m EXCEPT !.out = Bitmap(r.map), !.err = r.err, !.mapf[name] = r.file]

\* The unwrapper of SparseDB._init_rpn applied to c in machine state m (the
\* stack, the map files, err, and out, the value returned): a string naming
\* a catalog column becomes that column's map, read from its file; anything
\* else is returned as it is.
Unwrap(m, c) ==
    IF c.k # "str" THEN [m EXCEPT !.out = c]
    ELSE IF ~self_meta.set THEN [m EXCEPT !.err = "AttributeError"]
    ELSE IF ~(Len(c.v) = 1 /\ c.v[1] \in Range(self_meta.cols))
    THEN [m EXCEPT !.out = c]
    ELSE IF ~self_colidx.set \/ ~self_cols.set
    THEN [m EXCEPT !.err = "AttributeError"]
    ELSE Resolved(m, self_cols.list[self_colidx.idx[c.v[1]]].name,
                  GetMap(m.mapf[self_cols.list[self_colidx.idx[c.v[1]]].name]))

\* The dispatcher of SparseDB._init_rpn for a binary operator.
Binary(m, val, x, y) ==
    IF x.k # "map" \/ y.k # "map" THEN [m EXCEPT !.err = "TypeError"]
    ELSE [m EXCEPT !.out = Bitmap(
            CASE val = <<"&">> -> x.v \cap y.v
              [] val = <<"|">> -> x.v \cup y.v
              [] val = <<"^">> -> (x.v \ y.v) \cup (y.v \ x.v)
              [] val = <<"-">> -> x.v \ y.v)]

\* The dispatcher for '!': x.flip(0, self.get_shape()[0]).
Unary(m, x) ==
    IF x.k # "map" THEN [m EXCEPT !.err = "AttributeError"]
    ELSE [m EXCEPT !.out = Bitmap(Flip(x.v, 0, self_meta.shape[1]))]

\* Mutation of _pop: the operands come out newest first.
MutPopReversed(lst, n) ==
    IF Len(lst) < n
    THEN [err |-> "not enough elements in stack", rest |-> lst,
          operands |-> <<>>]
    ELSE [err |-> "", rest |-> SubSeq(lst, 1, Len(lst) - n),
          operands |-> [i \in 1..n |-> lst[Len(lst) - i + 1]]]

\* Mutation of _pop: the test is len(lst) <= n.
MutPopOffByOne(lst, n) ==
    IF Len(lst) <= n
    THEN [err |-> "not enough elements in stack", rest |-> lst,
          operands |-> <<>>]
    ELSE [err |-> "", rest |-> SubSeq(lst, 1, Len(lst) - n),
          operands |-> SubSeq(lst, Len(lst) - n + 1, Len(lst))]

\* ReversePolish._pop(lst, n)
Pop(lst, n) ==
    IF Len(lst) < n
    THEN [err |-> "not enough elements in stack", rest |-> lst,
          operands |-> <<>>]
    ELSE [err |-> "", rest |-> SubSeq(lst, 1, Len(lst) - n),
          operands |-> SubSeq(lst, Len(lst) - n + 1, Len(lst))]


\* stack.append(result) on the stack left by _pop.
Push(r, rest) ==
    IF r.err # "" THEN r ELSE [r EXCEPT !.stack = Append(rest, r.out)]

\* self._dis['!'](unwrap(o1)), u being the state after the unwrap.
ApplyUnary(u, rest) ==
    IF u.err # "" THEN u ELSE Push(Unary(u, u.out), rest)

\* self._dis[val](x, unwrap(o2)), u2 being the state after the second unwrap.
ApplyBinary2(u2, x, val, rest) ==
    IF u2.err # "" THEN u2 ELSE Push(Binary(u2, val, x, u2.out), rest)

\* self._dis[val](unwrap(o1), unwrap(o2)), u1 being the state after the
\* first unwrap: the operands are resolved in the order they were pushed.
ApplyBinary1(u1, o2, val, rest) ==
    IF u1.err # "" THEN u1
    ELSE ApplyBinary2(Unwrap(u1, o2), u1.out, val, rest)

\* The operator branch of execute, p being what _pop returned.
Operate(m, tok, p) ==
    IF p.err # "" THEN [m EXCEPT !.err = p.err]
    ELSE IF tok.arity = 1
    THEN ApplyUnary(Unwrap(m, p.operands[1]), p.rest)
    ELSE ApplyBinary1(Unwrap(m, p.operands[1]), p.operands[2], tok.val,
                      p.rest)

\* One turn of the loop of ReversePolish.execute.
RpnStep(m, tok) ==
    IF tok.op THEN Operate(m, tok, Pop(m.stack, tok.arity))
    ELSE [m EXCEPT !.stack = Append(@, Str(tok.val))]

RECURSIVE RpnLoop(_, _)
\* The loop of ReversePolish.execute over the tokens.
RpnLoop(m, tokens) ==
    IF tokens = <<>> \/ m.err # "" THEN m
    ELSE RpnLoop(RpnStep(m, Head(tokens)), Tail(tokens))

\* Mutation of the return: a stack that does not hold exactly one element is
\* refused.
MutRpnReturnStrict(m) ==
    IF m.err # "" THEN m
    ELSE IF Len(m.stack) # 1 THEN [m EXCEPT !.err = "ValueError"]
    ELSE Unwrap([m EXCEPT !.stack = SubSeq(@, 1, Len(@) - 1)],
                m.stack[Len(m.stack)])

\* return self._unwrap(stack.pop())
RpnReturn(m) ==
    IF m.err # "" THEN m
    ELSE IF m.stack = <<>> THEN [m EXCEPT !.err = "IndexError"]
    ELSE Unwrap([m EXCEPT !.stack = SubSeq(@, 1, Len(@) - 1)],
                m.stack[Len(m.stack)])

\* ReversePolish.execute(expr) with SparseDB's tokeniser, dispatcher and
\* unwrapper.
Execute(expr) ==
    RpnReturn(RpnLoop([stack |-> <<>>, err |-> "", out |-> Bitmap({}),
                       mapf |-> mapf],
                      Tokeniser(expr)))

\* list(b): the members of a bitmap in ascending order, the characters of a
\* string.
ListOf(m) ==
    [err  |-> m.err,
     val  |-> IF m.err # "" THEN <<>>
              ELSE IF m.out.k = "map" THEN SortedSeq(m.out.v) ELSE m.out.v,
     kind |-> IF m.err # "" THEN "" ELSE m.out.k,
     mapf |-> m.mapf]

\* SparseDB.find(statement): the list returned, and the map files after it.
FindResult(statement) == ListOf(Execute(statement))

\* The state a call of find that ended as r leaves.
FindEffect(statement, r) ==
    /\ ret' = Ret("find", statement, r.err, r.val)
    /\ mapf' = r.mapf

\* SparseDB.find
Find(statement) ==
    /\ FindEffect(statement, FindResult(statement))
    /\ UNCHANGED <<meta, h5, self_meta, self_colidx, self_cols, nblocks,
                   g_sizes, g_log, g_dup, g_contract>>
    /\ g_before' = Unobserved

\* A statement as a caller writes it: the tokens with one blank between.
Statement(tokens) == JoinBlank([i \in DOMAIN tokens |-> <<tokens[i]>>])

\* The tokens of statements.
TokenChars == Names \cup OpChars

\* Every statement of at most MaxTokens tokens.
Statements == {Statement(ts) : ts \in SeqsUpTo(TokenChars, MaxTokens)}

\* The statements handed to find in a run.
FindInputs ==
    {Statement(ts) : ts \in {<<"x">>, <<"y", "!">>, <<"x", "y", "&">>,
                             <<"x", "y", "|">>, <<"x", "y", "^">>,
                             <<"y", "x", "-">>, <<"x", "!", "!">>,
                             <<"x", "&">>, <<"x", "y">>}}

\* ------------------------------------------------------------ get_data
\* The entry of the 1 x n matrix mat at column i: the value stored with
\* index i, or 0.
Entry(mat, i) ==
    IF \E j \in DOMAIN mat.indices : mat.indices[j] = i
    THEN mat.data[CHOOSE j \in DOMAIN mat.indices : mat.indices[j] = i]
    ELSE 0

\* A matrix whose stored indices do not all lie below shape[1]: indexing it
\* reads outside the arrays scipy allocates for its columns.
OutOfShape(mat) == \E j \in DOMAIN mat.indices : mat.indices[j] >= mat.shape[2]

\* get_data()[0, indices] for one column, or get_data() when indices is
\* None (items.all): the selected entries as a row, err where it raises, ub
\* where the behaviour is undefined.
SelectRow(mat, items) ==
    IF mat.err # "" THEN [err |-> mat.err, ub |-> FALSE, row |-> <<>>]
    ELSE IF ~items.all /\ \E k \in DOMAIN items.list :
                              items.list[k] >= mat.shape[2]
    THEN [err |-> "IndexError", ub |-> FALSE, row |-> <<>>]
    ELSE [err |-> "", ub |-> OutOfShape(mat),
          row |-> IF items.all
                  THEN [i \in 1..mat.shape[2] |-> Entry(mat, i - 1)]
                  ELSE [k \in DOMAIN items.list |->
                           Entry(mat, items.list[k])]]

\* sparse.vstack(rows).T: the first row that raised decides; rows of
\* different lengths cannot be stacked.
StackT(rows) ==
    IF \E k \in DOMAIN rows : rows[k].err # ""
    THEN [err |-> rows[CHOOSE k \in DOMAIN rows :
                          /\ rows[k].err # ""
                          /\ \A j \in 1..(k - 1) : rows[j].err = ""].err,
          ub |-> FALSE, val |-> <<>>]
    ELSE IF rows = <<>> \/ \E j, k \in DOMAIN rows :
                               Len(rows[j].row) # Len(rows[k].row)
    THEN [err |-> "ValueError", ub |-> FALSE, val |-> <<>>]
    ELSE [err |-> "", ub |-> \E k \in DOMAIN rows : rows[k].ub,
          val |-> [i \in 1..Len(rows[1].row) |->
                     [k \in DOMAIN rows |-> rows[k].row[i]]]]

\* The rows and the files after get_data of the column named name returned
\* mat: st holds the rows yielded so far and the files (h5, mapf).
ReadDone(st, name, mat, items) ==
    [st EXCEPT !.rows = Append(@, SelectRow(mat, items)),
               !.h5[name] = mat.h5,
               !.mapf[name] = mat.file]

\* self._cols[self._colidx[c]].get_data(), then the selection, for column c.
ReadColumn(st, c, items) ==
    IF c \notin DOMAIN self_colidx.idx
    THEN [st EXCEPT !.rows = Append(@, [err |-> "KeyError", ub |-> FALSE,
                                        row |-> <<>>])]
    ELSE ReadDone(st, self_cols.list[self_colidx.idx[c]].name,
                  ColumnGetData(
                      st.h5[self_cols.list[self_colidx.idx[c]].name],
                      st.mapf[self_cols.list[self_colidx.idx[c]].name]),
                  items)

RECURSIVE ReadColumns(_, _, _)
\* The generator handed to vstack: one row per column of cols, in order,
\* up to the first that raises.
ReadColumns(st, cols, items) ==
    IF cols = <<>> \/ (st.rows # <<>> /\ st.rows[Len(st.rows)].err # "")
    THEN st
    ELSE ReadColumns(ReadColumn(st, Head(cols), items), Tail(cols), items)

\* What get_data returns or raises, t, with the files it leaves.
WithFiles(t, h5s, mapfs) ==
    [err |-> t.err, ub |-> t.ub, val |-> t.val, h5 |-> h5s, mapf |-> mapfs]

\* vstack over the rows the generator yielded.
StackRead(st) == WithFiles(StackT(st.rows), st.h5, st.mapf)

\* The body of SparseDB.get_data once cols is known.
GetDataOf(items, cols) ==
    IF ~self_colidx.set \/ ~self_cols.set
    THEN WithFiles([err |-> "AttributeError", ub |-> FALSE, val |-> <<>>],
                   h5, mapf)
    ELSE StackRead(ReadColumns([rows |-> <<>>, h5 |-> h5, mapf |-> mapf],
                               cols, items))

\* SparseDB.get_data(indices, cols): items and columns are [all, list], all
\* standing for None.
GetDataResult(items, columns) ==
    IF ~self_meta.set /\ columns.all
    THEN WithFiles([err |-> "AttributeError", ub |-> FALSE, val |-> <<>>],
                   h5, mapf)
    ELSE GetDataOf(items, IF columns.all THEN self_meta.cols
                          ELSE columns.list)

\* What a call that ended as r may return: where the behaviour is undefined
\* it may raise or return the entries found.
Outcomes(r) ==
    IF r.ub THEN {[err |-> "IndexError", val |-> <<>>],
                  [err |-> "", val |-> r.val]}
    ELSE {[err |-> r.err, val |-> r.val]}

\* The state a call of get_data that ended as r leaves: what it returned or
\* raised, and the files it opened for reading.
GetDataEffect(items, columns, r) ==
    /\ \E o \in Outcomes(r) :
          ret' = Ret("get_data", <<items, columns>>, o.err, o.val)
    /\ h5' = r.h5
    /\ mapf' = r.mapf

\* SparseDB.get_data
GetData(items, columns) ==
    /\ GetDataEffect(items, columns, GetDataResult(items, columns))
    /\ UNCHANGED <<meta, self_meta, self_colidx, self_cols, nblocks,
                   g_sizes, g_log, g_dup, g_contract>>
    /\ g_before' = Unobserved

None == [all |-> TRUE, list |-> <<>>]

List(l) == [all |-> FALSE, list |-> l]

\* The item indices a caller can name.
Items == 0..((MaxBI + 1) * 2 - 1)

\* Every indices argument: None, or a list of 1..MaxItems item indices.
ItemInputs == {None} \cup {List(l) : l \in SeqsUpTo(Items, MaxItems) \ {<<>>}}

\* Every cols argument: None, or a list of one or two column names.
ColumnInputs == {None} \cup {List(l) : l \in SeqsUpTo(Names, 2) \ {<<>>}}

\* The arguments handed to get_data in a run.
ReadInputs ==
    {<<None, None>>, <<List(<<0, 3>>), List(<<"x">>)>>,
     <<List(<<2, 0>>), List(<<"y", "x">>)>>, <<List(<<1>>), None>>}

\* ------------------------------------------------------------- attach
\* What the catalog holds and answers: the persisted files and shape, and
\* what find and get_data return.
Observed ==
    [set      |-> TRUE,
     attached |-> self_cols.set,
     h5       |-> h5,
     mapf     |-> mapf,
     meta     |-> meta,
     find     |-> [statement \in FindInputs |->
                     [err |-> FindResult(statement).err,
                      val |-> FindResult(statement).val]],
     read     |-> [a \in ReadInputs |-> GetDataResult(a[1], a[2])]]

\* SparseDB.attach
Attach ==
    /\ AttachEffect(meta, "attach", <<>>)
    /\ UNCHANGED <<meta, nblocks, g_sizes, g_log, g_dup, g_contract>>
    /\ g_before' = Observed

\* ------------------------------------------------------- specification
Next ==
    \/ \E cols \in CreateInputs : Create(cols)
    \/ Attach
    \/ \E blocksize \in BlockSizes :
         \E csr_blocks \in CallInputs(blocksize) :
            PutDataBlocks(blocksize, csr_blocks)
    \/ \E statement \in FindInputs : Find(statement)
    \/ \E a \in ReadInputs : GetData(a[1], a[2])

Spec == Init /\ [][Next]_vars

\* ---------------------------------------------------------------- claims
\* The persisted presence index of column c.
Presence(c) == Deserialize(mapf[c].buf)

\* The columns of the attached catalog.
CatalogColumns == Range(self_meta.cols)

\* The catalog is attached: _cols has been built.
Attached == self_cols.set

\* The persisted row count.
RowCount == meta.shape[1]

\* The items ever appended for column c.
AppendedItems(c) == {e[2] : e \in {l \in g_log : l[1] = c}}

\* The value appended for item i of column c, 0 (empty) where there is none.
AppendedValue(c, i) ==
    IF i \in AppendedItems(c)
    THEN (CHOOSE e \in g_log : e[1] = c /\ e[2] = i)[3]
    ELSE 0

\* C1 (as claimed): after any sequence of put_data_blocks calls the
\* persisted row count is the largest (bi+1)*blocksize over all the blocks
\* appended so far.
C1_RowCountIsMaxExtent ==
    (Attached /\ g_sizes # {}) => RowCount = SetMax(g_sizes)

\* C1 (as claimed, second half): the row count never decreases from one call
\* to the next.
C1_RowCountNeverDecreases ==
    [][meta.exists /\ meta'.exists => meta'.shape[1] >= meta.shape[1]]_vars

\* The matrix get_data(items, columns) is to return: one row per item, one
\* entry per column, each the value appended for that cell.
ExpectedMatrix(items, columns) ==
    [i \in DOMAIN items |->
        [k \in DOMAIN columns |-> AppendedValue(columns[k], items[i])]]

\* C2 (as claimed): when every call kept the per-call contract and no cell
\* was appended twice, get_data returns, for any items below the row count
\* and any columns, exactly the values appended, in the order asked.
C2_ReadReturnsAppended ==
    (Attached /\ g_contract /\ ~g_dup) =>
        \A items \in SeqsUpTo(Items, MaxItems) \ {<<>>} :
        \A columns \in SeqsUpTo(Names, 2) \ {<<>>} :
            (\A i \in DOMAIN items : items[i] < RowCount) =>
                \A o \in Outcomes(GetDataResult(List(items), List(columns))) :
                    o.err = "" /\ o.val = ExpectedMatrix(items, columns)

\* Column c's value array is as long as its presence index is large.
Consistent(c) == Len(h5[c].data) = Cardinality(Presence(c))

\* C3 (as claimed): when every call kept the per-call contract, every
\* column's value array is as long as its presence index is large.
C3_LengthsAgree ==
    (Attached /\ g_contract) => \A c \in CatalogColumns : Consistent(c)

\* C3 (amended): when every call kept the per-call contract and no (column,
\* item) pair was appended twice, every column's value array is as long as
\* its presence index is large.
C3_LengthsAgreeNoDup ==
    (Attached /\ g_contract /\ ~g_dup) =>
        \A c \in CatalogColumns : Consistent(c)

\* C3 witness: two blocks were appended under the contract without a
\* repeated cell, and column x holds two values.
C3_Witness ==
    /\ Attached /\ g_contract /\ ~g_dup
    /\ nblocks = 2
    /\ Len(h5["x"].data) >= 2
    /\ ret.op = "put_data_blocks"

\* The set a postfix expression denotes: the expression ending at token hi
\* of ts is read from its last token backwards; ok tells that it is
\* well-formed, lo is where it starts, val the set it denotes with ! as the
\* complement in [0, row count).
RECURSIVE Denote(_, _)
Denote(ts, hi) ==
    IF hi < 1 THEN [ok |-> FALSE, lo |-> 0, val |-> {}]
    ELSE IF ts[hi] \in Names
    THEN [ok |-> TRUE, lo |-> hi, val |-> Presence(ts[hi])]
    ELSE IF ts[hi] = "!"
    THEN LET a == Denote(ts, hi - 1)
         IN  [ok |-> a.ok, lo |-> a.lo, val |-> (0..(RowCount - 1)) \ a.val]
    ELSE LET b == Denote(ts, hi - 1)
             a == Denote(ts, b.lo - 1)
         IN  [ok  |-> a.ok /\ b.ok,
              lo  |-> a.lo,
              val |-> CASE ts[hi] = "&" -> a.val \cap b.val
                        [] ts[hi] = "|" -> a.val \cup b.val
                        [] ts[hi] = "^" -> (a.val \ b.val) \cup (b.val \ a.val)
                        [] OTHER        -> a.val \ b.val]

\* ts is one well-formed postfix expression.
WellFormed(ts) ==
    ts # <<>> /\ Denote(ts, Len(ts)).ok /\ Denote(ts, Len(ts)).lo = 1

\* C4 (as claimed): for every well-formed postfix statement over the catalog
\* columns, find returns the ascending sequence of the set the expression
\* denotes, ! being the complement of its operand in [0, row count).
C4_FindDenotes ==
    Attached =>
        \A ts \in SeqsUpTo(TokenChars, MaxTokens) :
            WellFormed(ts) =>
                /\ FindResult(Statement(ts)).err = ""
                /\ FindResult(Statement(ts)).val
                      = SortedSeq(Denote(ts, Len(ts)).val)

\* C4 in the states where C1's row count is right: every presence index lies
\* below the row count.
C4_FindDenotesInDomain ==
    (Attached /\ \A c \in CatalogColumns : \A i \in Presence(c) : i < RowCount)
        => C4_FindDenotes

\* C5: each column's persisted presence index is exactly the set of
\* bi*blocksize + local index over all the entries ever appended for that
\* column, and find of the column's name returns those in ascending order.
C5_PresenceIsGlobalIndices ==
    Attached =>
        \A c \in CatalogColumns :
            /\ Presence(c) = AppendedItems(c)
            /\ FindResult(Statement(<<c>>)).err = ""
            /\ FindResult(Statement(<<c>>)).val = SortedSeq(AppendedItems(c))

\* C5 witness: find("x") has returned two indices, one of them in block 1.
C5_Witness ==
    /\ Attached
    /\ ret.op = "find" /\ ret.arg = Statement(<<"x">>) /\ ret.err = ""
    /\ Len(ret.val) >= 2
    /\ \E i \in DOMAIN ret.val : ret.val[i] >= 2
    /\ \E e \in g_log : e[1] = "x" /\ e[2] >= 2

\* C6: across every step the persisted presence index of every column is a
\* superset of what it was, and find and get_data leave every persisted
\* presence index as it was.
C6_PresenceOnlyGrows ==
    [][/\ \A c \in Names :
             mapf[c].exists =>
                 /\ mapf'[c].exists
                 /\ Presence(c) \subseteq Deserialize(mapf'[c].buf)
       /\ ret'.op \in {"find", "get_data"} =>
             \A c \in Names :
                 /\ mapf'[c].exists = mapf[c].exists
                 /\ mapf[c].exists =>
                       Deserialize(mapf'[c].buf) = Presence(c)]_vars

\* C6 witness: find with the complement operator has returned on a catalog
\* whose column y has a non-empty presence index.
C6_Witness ==
    /\ Attached
    /\ ret.op = "find" /\ ret.arg = Statement(<<"y", "!">>) /\ ret.err = ""
    /\ Presence("y") # {}
    /\ nblocks = 2

\* C7: create fails with "database already exists" when metadata is
\* persisted, otherwise with "repeated column names" when the names are not
\* pairwise distinct, and in both failures leaves the persisted metadata as
\* it was; otherwise it persists the names with shape (0, len(names)) and
\* the catalog is attached.
C7_Create ==
    [][ret'.op = "create" =>
          IF meta.exists
          THEN ret'.err = "database already exists" /\ meta' = meta
          ELSE IF ~IsInjective(ret'.arg)
          THEN ret'.err = "repeated column names" /\ meta' = meta
          ELSE /\ ret'.err = ""
               /\ meta' = [exists |-> TRUE, cols |-> ret'.arg,
                           shape |-> <<0, Len(ret'.arg)>>]
               /\ self_meta'.set /\ self_colidx'.set /\ self_cols'.set
               /\ Len(self_cols'.list) = Len(ret'.arg)]_vars

\* C7 witness: create with a repeated name has failed where nothing was
\* persisted, leaving nothing persisted.
C7_Witness ==
    /\ ret.op = "create" /\ ret.err = "repeated column names"
    /\ ret.arg = <<"x", "x">>
    /\ ~meta.exists

\* C7 second witness: create has succeeded.
C7_WitnessCreated ==
    /\ ret.op = "create" /\ ret.err = ""
    /\ meta.exists /\ Attached

\* ------------------------------------------- a directory found on disk
\* The metadata documents a directory may hold when the program starts:
\* none, or one naming the columns x and y whose shape records one, two or
\* three columns.
MetaDocs ==
    {NoMeta} \cup {[exists |-> TRUE, cols |-> <<"x", "y">>,
                    shape |-> <<0, n>>] : n \in 1..3}

\* The state after SparseDB(path, name) on such a directory.
InitOpen ==
    /\ meta \in MetaDocs
    /\ h5 = [c \in Names |-> NoH5File]
    /\ mapf = [c \in Names |-> NoMapFile]
    /\ self_meta = Unset
    /\ self_colidx = [set |-> FALSE, idx |-> <<>>]
    /\ self_cols = [set |-> FALSE, list |-> <<>>]
    /\ ret = Ret("init", <<>>, "", <<>>)
    /\ nblocks = 0
    /\ g_sizes = {}
    /\ g_log = {}
    /\ g_dup = FALSE
    /\ g_contract = TRUE
    /\ g_before = Unobserved

SpecOpen == InitOpen /\ [][Next]_vars

\* C8: attach fails with "database does not exist" when no metadata is
\* persisted and with "inconsistent meta data" when the persisted column
\* list is not as long as the persisted col_count says, leaving _colidx and
\* _cols as they were; only otherwise does it build the name-to-index
\* mapping and one SparseColumn per column, in catalog order.
C8_Attach ==
    [][ret'.op = "attach" =>
          IF ~meta.exists
          THEN /\ ret'.err = "database does not exist"
               /\ UNCHANGED <<self_colidx, self_cols>>
          ELSE IF Len(meta.cols) # meta.shape[2]
          THEN /\ ret'.err = "inconsistent meta data"
               /\ UNCHANGED <<self_colidx, self_cols>>
          ELSE /\ ret'.err = ""
               /\ self_colidx'.set /\ self_cols'.set
               /\ DOMAIN self_colidx'.idx = Range(meta.cols)
               /\ \A i \in DOMAIN meta.cols :
                     self_colidx'.idx[meta.cols[i]] = i
               /\ Len(self_cols'.list) = Len(meta.cols)
               /\ \A i \in DOMAIN meta.cols :
                     self_cols'.list[i].name = meta.cols[i]]_vars

\* C8 witness: attach has failed on metadata whose column list and
\* col_count disagree, and nothing was built.
C8_Witness ==
    /\ ret.op = "attach" /\ ret.err = "inconsistent meta data"
    /\ meta.exists /\ Len(meta.cols) # meta.shape[2]
    /\ ~self_cols.set /\ ~self_colidx.set

\* C9: whatever create, attach and put_data_blocks have done to an empty
\* directory, the persisted col_count is the number of persisted column
\* names, and no attach has failed with "inconsistent meta data".
C9_ColCountIsNames ==
    /\ meta.exists => meta.shape[2] = Len(meta.cols)
    /\ ret.op \in {"attach", "create"} => ret.err # "inconsistent meta data"

\* C9 witness: attach has succeeded on a catalog to which blocks were
\* appended.
C9_Witness ==
    /\ ret.op = "attach" /\ ret.err = ""
    /\ meta.exists /\ meta.shape[1] > 0
    /\ nblocks = 2

\* ------------------------------------------------- the evaluator alone
\* Two calls that fill a catalog: block 1 with x at 0 and y at 1, and block
\* 0 with x at 0.
RpnCallInputs ==
    {<< <<1, Block(2, <<<<0>>, <<1>>>>, 2, 1)>> >>,
     << <<0, Block(2, <<<<0>>, <<>>>>, 2, 0)>> >>}

\* The catalog is created and filled, and find is handed every statement of
\* at most MaxTokens tokens.
NextRpn ==
    \/ Create(<<"x", "y">>)
    \/ \E csr_blocks \in RpnCallInputs : PutDataBlocks(2, csr_blocks)
    \/ \E statement \in Statements : Find(statement)

SpecRpn == Init /\ [][NextRpn]_vars

\* The number of elements on the stack after the first k tokens, none of
\* which failed: an operand adds one, a binary operator takes one away.
Depth(toks, k) ==
    Cardinality({j \in 1..k : ~toks[j].op})
        - Cardinality({j \in 1..k : toks[j].arity = 2})

\* The evaluator's state when token k of toks is next.
Before(toks, k) ==
    RpnLoop([stack |-> <<>>, err |-> "", out |-> Bitmap({}), mapf |-> mapf],
            SubSeq(toks, 1, k - 1))

\* Token k of toks is an operator, and is reached.
Reached(toks, k) == toks[k].op /\ Before(toks, k).err = ""

\* C10: when find has run a statement, every operator token of arity n that
\* was reached with fewer than n elements on the stack made it fail with
\* "not enough elements in stack" and return nothing; one reached with at
\* least n elements did not raise that error; and the error has no other
\* origin.
C10_StackUnderflow ==
    ret.op = "find" =>
        LET toks == Tokeniser(ret.arg)
        IN  /\ \A k \in DOMAIN toks :
                  Reached(toks, k) =>
                      /\ Len(Before(toks, k).stack) = Depth(toks, k - 1)
                      /\ IF Depth(toks, k - 1) < toks[k].arity
                         THEN /\ RpnStep(Before(toks, k), toks[k]).err
                                    = "not enough elements in stack"
                              /\ ret.err = "not enough elements in stack"
                              /\ ret.val = <<>>
                         ELSE RpnStep(Before(toks, k), toks[k]).err
                                  # "not enough elements in stack"
            /\ ret.err = "not enough elements in stack" =>
                  \E k \in DOMAIN toks :
                      Reached(toks, k) /\ Depth(toks, k - 1) < toks[k].arity

\* C10 witness: find("x ! &") has failed at its second operator, reached
\* with one element on the stack.
C10_Witness ==
    /\ Attached
    /\ ret.op = "find" /\ ret.arg = Statement(<<"x", "!", "&">>)
    /\ ret.err = "not enough elements in stack"
    /\ Presence("x") # {}

\* The tokens as one-character names, where every token is one character.
TokenNames(toks) == [i \in DOMAIN toks |-> toks[i].val[1]]

\* No operator token of toks meets a stack that is too short for it.
NoShort(toks) ==
    \A k \in DOMAIN toks :
        toks[k].op => Depth(toks, k - 1) >= toks[k].arity

\* The part of the statement that builds the element on top of the stack
\* when every token is consumed.
TopExpression(ts) == SubSeq(ts, Denote(ts, Len(ts)).lo, Len(ts))

\* C11: on an attached catalog, a statement none of whose operators
\* underflows and that leaves k >= 1 elements on the stack succeeds, and
\* find returns what the expression of the top element alone returns,
\* whatever lies below it; when the last token is a column name, that
\* column's presence index.
C11_ResidualStackIgnored ==
    (ret.op = "find" /\ Attached) =>
        LET toks == Tokeniser(ret.arg)
        IN  (/\ \A k \in DOMAIN toks : Len(toks[k].val) = 1
             /\ NoShort(toks)
             /\ Depth(toks, Len(toks)) >= 1) =>
                /\ ret.err = ""
                /\ ret.val
                     = FindResult(Statement(TopExpression(TokenNames(toks)))).val
                /\ TokenNames(toks)[Len(toks)] \in Names =>
                     ret.val
                       = SortedSeq(Presence(TokenNames(toks)[Len(toks)]))

\* C11 witness: find("x y") has returned y's presence index, leaving x on
\* the stack, where the two columns differ.
C11_Witness ==
    /\ Attached
    /\ ret.op = "find" /\ ret.arg = Statement(<<"x", "y">>) /\ ret.err = ""
    /\ ret.val = SortedSeq(Presence("y"))
    /\ Presence("y") # {} /\ Presence("x") # Presence("y")

\* ------------------------------------------------- the map file alone
\* with MapFile(path, mode) as bmf: bmf.map.update(indices), on the handle
\* bmf the constructor returned: the map at the end of the block and the
\* file after close; nothing is entered when the constructor raised.
SessionBody(bmf, indices) ==
    IF bmf.err # ""
    THEN [err |-> bmf.err, map |-> {}, file |-> bmf.file]
    ELSE [err |-> "", map |-> bmf.map \cup indices,
          file |-> MapFileClose(bmf.mode, bmf.map \cup indices, bmf.file)]

\* The state a session on column c's map file that ended as r leaves.
SessionEffect(c, mode, indices, r) ==
    /\ mapf' = [mapf EXCEPT ![c] = r.file]
    /\ ret' = Ret("mapfile", <<c, mode, SortedSeq(indices)>>, r.err,
                  SortedSeq(r.map))
    /\ UNCHANGED <<meta, h5, self_meta, self_colidx, self_cols, nblocks,
                   g_sizes, g_log, g_dup, g_contract>>
    /\ g_before' = Unobserved

\* A map file is opened in some mode, updated and closed.
MapFileSession(c, mode, indices) ==
    SessionEffect(c, mode, indices,
                  SessionBody(MapFileOpen(mapf[c], mode), indices))

\* The modes handed to MapFile: the two it knows and one it does not.
MapFileModes == {"r", "rw", "w"}

NextMapFile ==
    \E mode \in MapFileModes :
        \E indices \in SUBSET (0..MaxMapItem) :
            MapFileSession("x", mode, indices)

SpecMapFile == Init /\ [][NextMapFile]_vars

\* What column c's map file holds, nothing where it does not exist.
Persisted(c) == IF mapf[c].exists THEN Presence(c) ELSE {}

\* C12: a map file opened in mode 'rw', updated with S and closed holds
\* old \cup S, and the next open returns exactly that set; one opened in
\* mode 'r', updated and closed is left as it was; and every set survives
\* serialize followed by deserialize.
C12_MapFileRoundTrip ==
    [][ret'.op = "mapfile" =>
          /\ ret'.arg[2] = "rw" =>
                /\ ret'.err = ""
                /\ mapf'[ret'.arg[1]].exists
                /\ Deserialize(mapf'[ret'.arg[1]].buf)
                      = Persisted(ret'.arg[1]) \cup Range(ret'.arg[3])
                /\ MapFileOpen(mapf'[ret'.arg[1]], "r").err = ""
                /\ MapFileOpen(mapf'[ret'.arg[1]], "r").map
                      = Persisted(ret'.arg[1]) \cup Range(ret'.arg[3])
          /\ ret'.arg[2] = "r" =>
                /\ mapf'[ret'.arg[1]].exists = mapf[ret'.arg[1]].exists
                /\ mapf'[ret'.arg[1]].buf = mapf[ret'.arg[1]].buf
          /\ \A S \in SUBSET (0..MaxMapItem) :
                Deserialize(Serialize(S)) = S]_vars

\* C12 witness: the map file was opened in mode 'r', updated with indices
\* it did not hold and closed, and holds what it held.
C12_Witness ==
    /\ ret.op = "mapfile" /\ ret.arg[2] = "r" /\ ret.err = ""
    /\ mapf["x"].exists /\ Presence("x") # {}
    /\ ~(Range(ret.arg[3]) \subseteq Presence("x"))
    /\ Range(ret.val) = Presence("x") \cup Range(ret.arg[3])

\* C12 second witness: the map file was opened in mode 'rw', updated and
\* closed, and holds more than the update.
C12_WitnessWritten ==
    /\ ret.op = "mapfile" /\ ret.arg[2] = "rw" /\ ret.err = ""
    /\ Presence("x") # Range(ret.arg[3])
    /\ Range(ret.arg[3]) # {}

\* C13: in every state of an attached catalog and for every column A,
\* find("A ! !"), also written "A!!", returns what find("A") returns, the
\* states where A's presence index holds indices at or above the row count
\* included.
C13_DoubleComplement ==
    Attached =>
        \A c \in CatalogColumns :
            /\ FindResult(Statement(<<c, "!", "!">>)).err
                  = FindResult(Statement(<<c>>)).err
            /\ FindResult(Statement(<<c, "!", "!">>)).val
                  = FindResult(Statement(<<c>>)).val
            /\ FindResult(<<c, "!", "!">>).val = FindResult(<<c>>).val
            /\ FindResult(Statement(<<c>>)).val = SortedSeq(Presence(c))

\* C13 witness: find("x ! !") has returned x's presence index where it
\* holds an index at or above the row count.
C13_Witness ==
    /\ Attached
    /\ ret.op = "find" /\ ret.arg = Statement(<<"x", "!", "!">>)
    /\ ret.err = ""
    /\ ret.val = SortedSeq(Presence("x"))
    /\ \E i \in Presence("x") : i >= RowCount

\* C14: attach on an attached catalog, after whatever was appended,
\* succeeds and leaves every column's persisted value array and presence
\* index and the persisted shape exactly as they were, and find and
\* get_data return after it what they returned before it.
C14_ReattachIdempotent ==
    (ret.op = "attach" /\ g_before.set /\ g_before.attached) =>
        /\ ret.err = ""
        /\ h5 = g_before.h5 /\ mapf = g_before.mapf /\ meta = g_before.meta
        /\ \A statement \in FindInputs :
              /\ FindResult(statement).err = g_before.find[statement].err
              /\ FindResult(statement).val = g_before.find[statement].val
        /\ \A a \in ReadInputs :
              GetDataResult(a[1], a[2]) = g_before.read[a]

\* C14 witness: attach has succeeded again on a catalog whose column x
\* holds values.
C14_Witness ==
    /\ ret.op = "attach" /\ ret.err = ""
    /\ Attached /\ g_before.set /\ g_before.attached
    /\ \E c \in CatalogColumns :
          self_cols.list[self_colidx.idx[c]].shape
              # g_before.h5[c].shape
    /\ Len(h5["x"].data) >= 1 /\ Presence("x") # {}
    /\ RowCount > 0

\* A stack element that resolves to a set: a bitmap, or the name of a
\* catalog column.
Resolvable(e) ==
    \/ e.k = "map"
    \/ e.k = "str" /\ Len(e.v) = 1 /\ e.v[1] \in CatalogColumns

\* The set a stack element resolves to.
ResolvedSet(e) == IF e.k = "str" THEN Presence(e.v[1]) ELSE e.v

\* What operator val makes of its arguments, given in push order.
Applied(val, args) ==
    CASE val = <<"&">> -> args[1] \cap args[2]
      [] val = <<"|">> -> args[1] \cup args[2]
      [] val = <<"^">> -> (args[1] \ args[2]) \cup (args[2] \ args[1])
      [] val = <<"-">> -> args[1] \ args[2]
      [] val = <<"!">> -> (args[1] \ (0..(RowCount - 1)))
                            \cup ((0..(RowCount - 1)) \ args[1])

\* The turn of the loop that handles token tok in evaluator state m is as
\* C15 says.
TurnAsClaimed(m, tok, m2) ==
    IF ~tok.op
    THEN m2.err = "" /\ m2.stack = Append(m.stack, Str(tok.val))
    ELSE (/\ Attached
          /\ Len(m.stack) >= tok.arity
          /\ \A i \in 1..tok.arity :
                Resolvable(m.stack[Len(m.stack) - tok.arity + i])) =>
            /\ m2.err = ""
            /\ Len(m2.stack) = Len(m.stack) + 1 - tok.arity
            /\ SubSeq(m2.stack, 1, Len(m.stack) - tok.arity)
                  = SubSeq(m.stack, 1, Len(m.stack) - tok.arity)
            /\ m2.stack[Len(m2.stack)]
                  = Bitmap(Applied(tok.val,
                        [i \in 1..tok.arity |->
                           ResolvedSet(m.stack[Len(m.stack)
                                               - tok.arity + i])]))

\* C15: when find has run a statement, every token it reached was handled
\* so: an operator of arity n took the n newest stack elements, resolved
\* them, applied its function to them in push order and pushed the one
\* result, leaving what lay below as it was; any other token was pushed as
\* it is, unresolved.
C15_OperatorTurn ==
    ret.op = "find" =>
        \A k \in DOMAIN Tokeniser(ret.arg) :
            Before(Tokeniser(ret.arg), k).err = "" =>
                TurnAsClaimed(Before(Tokeniser(ret.arg), k),
                              Tokeniser(ret.arg)[k],
                              Before(Tokeniser(ret.arg), k + 1))

\* C15 witness: find("x y -") has returned the members of x that are not
\* in y, where that differs from the members of y that are not in x.
C15_Witness ==
    /\ Attached
    /\ ret.op = "find" /\ ret.arg = Statement(<<"x", "y", "-">>)
    /\ ret.err = ""
    /\ ret.val = SortedSeq(Presence("x") \ Presence("y"))
    /\ Presence("x") \ Presence("y") # Presence("y") \ Presence("x")

\* maxbi after the first j blocks of a call.
MaxBiUpTo(csr_blocks, j) ==
    SetMax({0} \cup {csr_blocks[i][1] : i \in 1..j})

\* C16: a call of put_data_blocks writes the shape at most
\* once, after its last block, and a call that fails leaves the persisted
\* shape as it was before the call.
C16_ShapePersistedOnce ==
    [][ret'.op = "put_data_blocks" =>
          /\ Len(ret'.val) <= 1
          /\ Len(ret'.val) = 1 => ret'.err = ""
          /\ ret'.err # "" => meta' = meta]_vars

\* The number of blocks of a call routed completely by a catalog of ncat
\* columns: those before the first block that is not blocksize rows long or
\* has more columns than the catalog.
BlocksDone(ncat, blocksize, blocks) ==
    IF \A i \in DOMAIN blocks : blocks[i][2] = blocksize /\ blocks[i][3] <= ncat
    THEN Len(blocks)
    ELSE (CHOOSE i \in DOMAIN blocks :
              /\ ~(blocks[i][2] = blocksize /\ blocks[i][3] <= ncat)
              /\ \A j \in 1..(i - 1) :
                    blocks[j][2] = blocksize /\ blocks[j][3] <= ncat) - 1

\* The call with arguments arg wrote the row counts writes, once per block
\* routed completely, done of them, starting from the persisted row count
\* old and leaving the row count new.
WritesPerBlock(arg, done, writes, old, new) ==
    /\ writes = [j \in 1..done |-> (MaxBiUpTo(arg[2], j) + 1) * arg[1]]
    /\ new = IF done = 0 THEN old
             ELSE (MaxBiUpTo(arg[2], done) + 1) * arg[1]

\* C16 (what the code does instead): put_data_blocks writes the shape once
\* per block, right after the block was routed to the columns: after the j-th block the
\* persisted row count is (largest bi among the first j blocks + 1) *
\* blocksize, and a call that fails on a block leaves the row count written
\* after the block before it, the row count before the call when the first
\* block fails.
C16_ShapePersistedPerBlock ==
    [][(ret'.op = "put_data_blocks" /\ Attached) =>
          /\ WritesPerBlock(ret'.arg,
                            BlocksDone(Len(self_cols.list), ret'.arg[1],
                                       ret'.arg[2]),
                            ret'.val, meta.shape[1], meta'.shape[1])
          /\ (ret'.err # "")
                = (BlocksDone(Len(self_cols.list), ret'.arg[1], ret'.arg[2])
                      < Len(ret'.arg[2]))
          /\ meta'.cols = meta.cols /\ meta'.shape[2] = meta.shape[2]]_vars

\* C16 witness: a call of two blocks has failed on its second block, and
\* the row count written after the first is what is persisted.
C16_Witness ==
    /\ Attached
    /\ ret.op = "put_data_blocks" /\ ret.err # ""
    /\ Len(ret.val) = 1
    /\ RowCount = ret.val[1] /\ RowCount > 0
    /\ nblocks = 2 /\ Cardinality(g_sizes) = 1

\* The extent column c persists for itself: the second entry of the shape
\* dataset of its data file.
ColumnExtent(c) == h5[c].shape[2]

\* C17: after every successful call of put_data_blocks, in a history of
\* calls that each kept the per-call contract (so that every column saw
\* every block), the persisted row count is the largest extent a column
\* persists for itself, and the extent of every column is (largest bi the
\* column has seen + 1) * blocksize, also when the call carried smaller
\* block indices than an earlier one.
C17_RowCountIsMaxColumnExtent ==
    (Attached /\ g_contract /\ ret.op = "put_data_blocks" /\ ret.err = ""
        /\ g_sizes # {}) =>
        /\ RowCount = SetMax({ColumnExtent(c) : c \in CatalogColumns})
        /\ \A c \in CatalogColumns : ColumnExtent(c) = SetMax(g_sizes)

\* ----------------------------------------- one column, used on its own
\* Blocks handed to one call of SparseColumn.put_data_blocks at most.
MaxColumnBlocks == 3

\* A single-row slice rows x width holding the local indices f, for block
\* bi of column k.
ColumnSlice(rows, width, f, blocksize, bi) ==
    [shape   |-> <<rows, width>>,
     indices |-> f,
     data    |-> [j \in DOMAIN f |-> CellValue(1, f[j] + bi * blocksize)]]

\* The slices a caller passes with block index bi: empty, one cell, full,
\* and one that is a column too wide.
SliceInputs(blocksize, bi) ==
    {ColumnSlice(1, blocksize, f, blocksize, bi) :
        f \in {<<>>, <<0>>, [i \in 1..blocksize |-> i - 1]}}
    \cup {ColumnSlice(1, blocksize + 1, <<0>>, blocksize, bi)}

\* The (bi, slice) pairs of a call.
ColumnBlocks(blocksize) ==
    UNION {{<<bi, b>> : b \in SliceInputs(blocksize, bi)} :
              bi \in BlockIndices}

\* SparseColumn(path, name): the object is built, and its files where they
\* are missing.
ColumnNewEffect(name, r) ==
    /\ self_cols' = [set |-> TRUE, list |-> <<r.col>>]
    /\ h5' = [h5 EXCEPT ![name] = r.h5]
    /\ mapf' = [mapf EXCEPT ![name] = r.mapf]
    /\ ret' = Ret("column", <<name>>, "", <<>>)
    /\ g_before' = Unobserved
    /\ UNCHANGED <<meta, self_meta, self_colidx, nblocks, g_sizes, g_log,
                   g_dup, g_contract>>

ColumnNew(name) == ColumnNewEffect(name, ColumnInit(name, h5[name], mapf[name]))

\* The cells of the first n blocks of a call on column name.
ColumnCells(name, blocksize, csr_blocks, n) ==
    {<<name, csr_blocks[p[1]][2].indices[p[2]] + csr_blocks[p[1]][1] * blocksize,
       csr_blocks[p[1]][2].data[p[2]]>> :
        p \in {q \in (1..n) \X (1..blocksize) :
                  q[2] \in DOMAIN csr_blocks[q[1]][2].indices}}

RECURSIVE ColumnCellCount(_, _)
\* How many cells the first n blocks of a call hold.
ColumnCellCount(csr_blocks, n) ==
    IF n = 0 THEN 0
    ELSE Len(csr_blocks[n][2].indices) + ColumnCellCount(csr_blocks, n - 1)

\* The state a call of put_data_blocks on the column object leaves when it
\* ended as r: what it raised, and the history of the cells it appended.
ColumnPutEffect(name, blocksize, csr_blocks, r) ==
    /\ self_cols' = [self_cols EXCEPT !.list = <<r.col>>]
    /\ h5' = [h5 EXCEPT ![name] = r.h5]
    /\ mapf' = [mapf EXCEPT ![name] = r.mapf]
    /\ ret' = Ret("column.put_data_blocks", <<name, blocksize, csr_blocks>>,
                  r.err, r.done)
    /\ nblocks' = nblocks + Len(csr_blocks)
    /\ g_log' = g_log \cup ColumnCells(name, blocksize, csr_blocks, r.done)
    /\ g_dup' = (g_dup \/
                 Cardinality(Keys(g_log \cup ColumnCells(name, blocksize,
                                                         csr_blocks, r.done)))
                    # Cardinality(Keys(g_log))
                        + ColumnCellCount(csr_blocks, r.done))
    /\ g_before' = Unobserved
    /\ UNCHANGED <<meta, self_meta, self_colidx, g_sizes, g_contract>>

\* SparseColumn.put_data_blocks called on the column object.
ColumnPut(blocksize, csr_blocks) ==
    /\ self_cols.set
    /\ nblocks + Len(csr_blocks) <= MaxColumnBlocks
    /\ ColumnPutEffect(self_cols.list[1].name, blocksize, csr_blocks,
                       ColumnPutDataBlocks(self_cols.list[1],
                                           h5[self_cols.list[1].name],
                                           mapf[self_cols.list[1].name],
                                           blocksize, csr_blocks))

NextColumn ==
    \/ \E name \in Names : ColumnNew(name)
    \/ \E blocksize \in BlockSizes :
           \E csr_blocks \in SeqsUpTo(ColumnBlocks(blocksize), MaxColumnBlocks) :
               ColumnPut(blocksize, csr_blocks)

SpecColumn == Init /\ [][NextColumn]_vars

\* The first block of a call that is not one row of blocksize columns, 0
\* when there is none.
FirstBadBlock(blocksize, csr_blocks) ==
    IF \A i \in DOMAIN csr_blocks : csr_blocks[i][2].shape = <<1, blocksize>>
    THEN 0
    ELSE CHOOSE i \in DOMAIN csr_blocks :
            /\ csr_blocks[i][2].shape # <<1, blocksize>>
            /\ \A j \in 1..(i - 1) : csr_blocks[j][2].shape = <<1, blocksize>>

RECURSIVE ValuesOf(_, _)
\* The values of the first n blocks of a call, in the order of the call.
ValuesOf(csr_blocks, n) ==
    IF n = 0 THEN <<>>
    ELSE ValuesOf(csr_blocks, n - 1) \o csr_blocks[n][2].data

\* The call arg = <<name, blocksize, csr_blocks>> failed on its k-th block
\* and left of its blocks exactly those before the k-th in the data file
\* and in the map file of the column.
EarlierBlocksPersisted(arg, k, data, data2, map, map2) ==
    /\ k > 0
    /\ data2 = data \o ValuesOf(arg[3], k - 1)
    /\ map2 = map \cup {e[2] : e \in ColumnCells(arg[1], arg[2], arg[3], k - 1)}

\* C18 (as claimed): when put_data_blocks of a column raises 'invalid block
\* shape' on the k-th block, the blocks before it are in the persisted data
\* and in the persisted map, the k-th and later ones are in neither, and the
\* data is still as long as the map is large.
C18_FailedCallKeepsLengths ==
    [][(ret'.op = "column.put_data_blocks" /\ ret'.err # "") =>
          /\ ret'.err = "invalid block shape"
          /\ EarlierBlocksPersisted(ret'.arg,
                 FirstBadBlock(ret'.arg[2], ret'.arg[3]),
                 h5[ret'.arg[1]].data, h5'[ret'.arg[1]].data,
                 Presence(ret'.arg[1]), Deserialize(mapf'[ret'.arg[1]].buf))
          /\ Len(h5[ret'.arg[1]].data) = Cardinality(Presence(ret'.arg[1]))
                => Len(h5'[ret'.arg[1]].data)
                      = Cardinality(Deserialize(mapf'[ret'.arg[1]].buf))]_vars

\* C18 (amended): the same, the lengths agreeing after the failure provided
\* no (column, item) pair has been appended twice, the blocks before the
\* k-th included.
C18_FailedCallKeepsLengthsNoDup ==
    [][(ret'.op = "column.put_data_blocks" /\ ret'.err # "") =>
          /\ ret'.err = "invalid block shape"
          /\ EarlierBlocksPersisted(ret'.arg,
                 FirstBadBlock(ret'.arg[2], ret'.arg[3]),
                 h5[ret'.arg[1]].data, h5'[ret'.arg[1]].data,
                 Presence(ret'.arg[1]), Deserialize(mapf'[ret'.arg[1]].buf))
          /\ ~g_dup'
                => Len(h5'[ret'.arg[1]].data)
                      = Cardinality(Deserialize(mapf'[ret'.arg[1]].buf))]_vars

\* C18 witness: a call of three blocks has failed on its third block after
\* two blocks with cells, no cell having been appended twice.
C18_Witness ==
    /\ ret.op = "column.put_data_blocks" /\ ret.err = "invalid block shape"
    /\ Len(ret.arg[3]) = 3 /\ ret.val = 2
    /\ ~g_dup
    /\ Len(h5[ret.arg[1]].data) = 3
    /\ Cardinality(Presence(ret.arg[1])) = 3

\* C19: between operations no handle is open on a data file or on a map
\* file: what create, attach, put_data_blocks, find and get_data open they
\* close before they return or raise.
C19_NoOpenHandles ==
    \A c \in Names : h5[c].open = 0 /\ mapf[c].open = 0

\* C19 witness: put_data_blocks has raised 'invalid block shape' inside the
\* with-block of a column after a block was appended, and the files of the
\* column are closed.
C19_Witness ==
    /\ Attached
    /\ ret.op = "put_data_blocks" /\ ret.err = "invalid block shape"
    /\ Len(ret.val) = 1
    /\ \A c \in CatalogColumns :
          h5[c].exists /\ h5[c].open = 0 /\ mapf[c].open = 0

\* C19 witness, reading: get_data has raised after opening the files of a
\* column, and find has raised after reading a map, and the files are
\* closed.
C19_WitnessRead ==
    /\ Attached
    /\ ret.op \in {"get_data", "find"} /\ ret.err \in {"IndexError", "TypeError"}
    /\ \A c \in CatalogColumns : h5[c].open = 0 /\ mapf[c].open = 0

\* C20: after create and calls of put_data_blocks that each kept the
\* per-call contract, and so succeeded, every member of every column's
\* persisted map lies in [0, row count), and so does every index find
\* returns for a statement it evaluates to a map.
C20_IndicesBelowRowCount ==
    (Attached /\ g_contract) =>
        /\ \A c \in CatalogColumns : Presence(c) \subseteq 0..(RowCount - 1)
        /\ \A statement \in FindInputs :
              (FindResult(statement).err = ""
                  /\ FindResult(statement).kind = "map")
                 => Range(FindResult(statement).val) \subseteq 0..(RowCount - 1)

====
